---- MODULE Spec2Model ----
(***************************************************************************)
(* Model of github.com/etcinit/pagination (pagination.go).                 *)
(*                                                                         *)
(* A Paginator is the record of its three fields.  The constructors New    *)
(* and NewFromRequest, the accessors, the projections ToPagination and     *)
(* ToPaginationWithData and the producer goroutine of PagesStream are      *)
(* translated from the source.  Go's int is taken at the width of a 32-bit *)
(* build (the widest TLC's integers hold); a 64-bit build behaves the same *)
(* with 2^63 in place of 2^31.                                             *)
(***************************************************************************)
EXTENDS Integers, Sequences, FiniteSets, TLC

VARIABLES p, call, out, producer, consumer, stream

vars == <<p, call, out, producer, consumer, stream>>

(***************************************************************************)
(* Bounds of the model.                                                    *)
(***************************************************************************)
MaxItems == 7
MaxPerPage == 3
MaxPage == 5
MaxData == 2

(***************************************************************************)
(* Go's int.                                                               *)
(***************************************************************************)
MaxInt == 2147483647
MinInt == (-2147483647) - 1

\* a + b in Go's int: wraps around on overflow.
AddWrap(a, b) ==
    IF b > 0 /\ a > MaxInt - b THEN (a - MaxInt - 1) + (b - MaxInt - 1)
    ELSE IF b < 0 /\ a < MinInt - b THEN (a + MaxInt + 1) + (b + MaxInt + 1)
    ELSE a + b

\* a - 1 in Go's int.
SubOneWrap(a) == IF a = MinInt THEN MaxInt ELSE a - 1

\* a * b in Go's int, for a multiplier b >= 0 (the model's itemsPerPage).
RECURSIVE MulWrap(_, _)
MulWrap(a, b) == IF b = 0 THEN 0 ELSE AddWrap(MulWrap(a, b - 1), a)

(***************************************************************************)
(* float64 arithmetic of New and NumberOfPages.  Every int of the model is *)
(* below 2^53, so float64(x) is exact; the quotient is kept as the exact   *)
(* fraction num/den (den > 0), which is what math.Ceil needs to be decided.*)
(***************************************************************************)
Float64(x) == [num |-> x, den |-> 1]

FloatDiv(f, g) == [num |-> f.num * g.den, den |-> f.den * g.num]

Ceil_floor(f) == f.num \div f.den

\* math.Ceil: the least integer not below f.
Ceil(f) ==
    IF f.num % f.den = 0 THEN f.num \div f.den ELSE (f.num \div f.den) + 1

(***************************************************************************)
(* Accessors.                                                              *)
(***************************************************************************)
CurrentPage(pg) == pg.currentPage

NumberOfItems(pg) == pg.numberOfItems

ItemsPerPage(pg) == pg.itemsPerPage

NumberOfPages(pg) ==
    Ceil(FloatDiv(Float64(NumberOfItems(pg)), Float64(ItemsPerPage(pg))))

Offset(pg) == MulWrap(SubOneWrap(CurrentPage(pg)), ItemsPerPage(pg))

PreviousPage(pg) ==
    IF CurrentPage(pg) <= 1 THEN 1 ELSE CurrentPage(pg) - 1

NextPage_uncapped(pg) == AddWrap(CurrentPage(pg), 1)

NextPage(pg) ==
    IF CurrentPage(pg) >= NumberOfPages(pg) THEN NumberOfPages(pg)
    ELSE CurrentPage(pg) + 1

IsCurrentPage(pg, page) == CurrentPage(pg) = page

Pages(pg) == [i \in 1..NumberOfPages(pg) |-> i]

Show(pg) == NumberOfPages(pg) > 1

(***************************************************************************)
(* Constructors.                                                           *)
(***************************************************************************)
New_noClamp(numberOfItems, itemsPerPage, currentPage) ==
    [itemsPerPage  |-> itemsPerPage,
     numberOfItems |-> numberOfItems,
     currentPage   |-> IF currentPage = 0 THEN 1 ELSE currentPage]

New(numberOfItems, itemsPerPage, currentPage) ==
    LET cp == IF currentPage = 0 THEN 1 ELSE currentPage
        n  == Ceil(FloatDiv(Float64(numberOfItems), Float64(itemsPerPage)))
    IN  [itemsPerPage  |-> itemsPerPage,
         numberOfItems |-> numberOfItems,
         currentPage   |-> IF cp > n THEN n ELSE cp]

(***************************************************************************)
(* strconv.Atoi as NewFromRequest uses it.  A string is a sequence of      *)
(* one-character strings.  A numeral is an optional sign followed by one   *)
(* or more decimal digits; anything else is a syntax error with value 0.   *)
(* A numeral outside the int range is a range error whose value is the     *)
(* integer of largest magnitude with the numeral's sign.                   *)
(***************************************************************************)
DigitChars == <<"0", "1", "2", "3", "4", "5", "6", "7", "8", "9">>

IsDigit(c) == \E i \in 1..10 : DigitChars[i] = c

DigitVal(c) == (CHOOSE i \in 1..10 : DigitChars[i] = c) - 1

\* The negated value of a digit string, or over when it is below MinInt.
RECURSIVE NegMagnitude(_, _)
NegMagnitude(ds, acc) ==
    IF ds = <<>> \/ acc.over THEN acc
    ELSE LET d == DigitVal(Head(ds))
         IN  IF acc.v < (MinInt + d + 9) \div 10
             THEN [over |-> TRUE, v |-> 0]
             ELSE NegMagnitude(Tail(ds), [over |-> FALSE, v |-> acc.v * 10 - d])

Atoi(s) ==
    LET signed == Len(s) > 0 /\ Head(s) \in {"+", "-"}
        neg    == Len(s) > 0 /\ Head(s) = "-"
        ds     == IF signed THEN Tail(s) ELSE s
    IN  IF ds = <<>> \/ \E i \in 1..Len(ds) : ~IsDigit(ds[i])
        THEN [val |-> 0, err |-> "ErrSyntax"]
        ELSE LET m == NegMagnitude(ds, [over |-> FALSE, v |-> 0])
             IN  IF m.over \/ (~neg /\ m.v = MinInt)
                 THEN [val |-> IF neg THEN MinInt ELSE MaxInt, err |-> "ErrRange"]
                 ELSE [val |-> IF neg THEN m.v ELSE -m.v, err |-> "nil"]

\* req.URL.Query().Get("page"): the parameter's value, "" when it is absent.
QueryGet(req) == IF req.hasPage THEN req.page ELSE <<>>

NewFromRequest(numberOfItems, itemsPerPage, req) ==
    LET currentPageString == QueryGet(req)
        currentPage       == Atoi(currentPageString).val
    IN  New(numberOfItems, itemsPerPage, currentPage)

(***************************************************************************)
(* Projections.  A call's argument is the reflect.Kind of the value passed *)
(* and, for the kinds that hold elements, its elements.                    *)
(***************************************************************************)
ToPagination(pg) ==
    [ItemsPerPage  |-> ItemsPerPage(pg),
     NumberOfItems |-> NumberOfItems(pg),
     CurrentPage   |-> CurrentPage(pg),
     Offset        |-> Offset(pg),
     NextPage      |-> NextPage(pg),
     PreviousPage  |-> PreviousPage(pg),
     TotalPages    |-> NumberOfPages(pg),
     Data          |-> <<>>]

interfaceSlice_lenient(slice) ==
    [panicked |-> FALSE,
     ret      |-> IF slice.kind = "Slice"
                  THEN [i \in 1..Len(slice.elems) |-> slice.elems[i]]
                  ELSE <<>>]

\* panicked: the call ended in panic("interfaceSlice given a non-slice type").
interfaceSlice(slice) ==
    IF slice.kind # "Slice"
    THEN [panicked |-> TRUE, ret |-> <<>>]
    ELSE [panicked |-> FALSE,
          ret      |-> [i \in 1..Len(slice.elems) |-> slice.elems[i]]]

\* returned holds the Pagination the call returned; it is empty when the
\* panic of interfaceSlice unwound the call.
ToPaginationWithData(pg, slice) ==
    LET pagination == ToPagination(pg)
        data       == interfaceSlice(slice)
    IN  IF data.panicked
        THEN [panicked |-> TRUE, returned |-> <<>>]
        ELSE [panicked |-> FALSE,
              returned |-> <<[pagination EXCEPT !.Data = data.ret]>>]

(***************************************************************************)
(* Inputs.                                                                 *)
(***************************************************************************)
ItemCounts == 0..MaxItems

PageSizes == 1..MaxPerPage

PageNumbers == {-MaxPage, -1} \cup (0..MaxPage)

\* Values of the page query parameter: empty, numerals, malformed text and
\* numerals on both sides of the int range.
PageParams ==
    { <<>>, <<"0">>, <<"2">>, <<"7">>, <<"+", "4">>, <<"-", "3">>, <<"-">>,
      <<"a", "b">>, <<"2", "x">>,
      <<"2", "1", "4", "7", "4", "8", "3", "6", "4", "7">>,
      <<"2", "1", "4", "7", "4", "8", "3", "6", "4", "8">>,
      <<"9", "9", "9", "9", "9", "9", "9", "9", "9", "9", "9">>,
      <<"-", "2", "1", "4", "7", "4", "8", "3", "6", "4", "8">>,
      <<"-", "9", "9", "9", "9", "9", "9", "9", "9", "9", "9", "9">> }

NoRequest == [hasPage |-> FALSE, page |-> <<>>]

Requests == {NoRequest} \cup {[hasPage |-> TRUE, page |-> s] : s \in PageParams}

Kinds == {"Slice", "Array", "Map", "Int", "String", "Invalid"}

Items == {"a", "b"}

ItemSeqs == UNION {[1..k -> Items] : k \in 0..MaxData}

Arguments == [kind : Kinds, elems : ItemSeqs]

(***************************************************************************)
(* State.  p is the Paginator; call is the constructor call that made it   *)
(* (currentPage: the page number handed to New); out is the outcome of the *)
(* last projection; producer, consumer and stream are the goroutine of     *)
(* PagesStream, the caller receiving from it, and the channel.             *)
(***************************************************************************)
Init ==
    /\ \E n \in ItemCounts, per \in PageSizes :
          \/ \E page \in PageNumbers :
                /\ p = New(n, per, page)
                /\ call = [op |-> "New", numberOfItems |-> n,
                           itemsPerPage |-> per, currentPage |-> page,
                           req |-> NoRequest]
          \/ \E req \in Requests :
                /\ p = NewFromRequest(n, per, req)
                /\ call = [op |-> "NewFromRequest", numberOfItems |-> n,
                           itemsPerPage |-> per,
                           currentPage |-> Atoi(QueryGet(req)).val,
                           req |-> req]
    /\ out = [op |-> "none", kind |-> "none", panicked |-> FALSE,
              returned |-> <<>>]
    /\ producer = [pc |-> "idle", i |-> 0]
    /\ consumer = [pc |-> "idle", received |-> <<>>]
    /\ stream = [made |-> FALSE, closed |-> FALSE]

CallToPagination ==
    /\ out' = [op |-> "ToPagination", kind |-> "none", panicked |-> FALSE,
               returned |-> <<ToPagination(p)>>]
    /\ UNCHANGED <<p, call, producer, consumer, stream>>

CallToPaginationWithData ==
    \E slice \in Arguments :
        LET r == ToPaginationWithData(p, slice)
        IN  /\ out' = [op |-> "ToPaginationWithData", kind |-> slice.kind,
                       panicked |-> r.panicked, returned |-> r.returned]
            /\ UNCHANGED <<p, call, producer, consumer, stream>>

\* PagesStream: make the unbuffered channel, start the goroutine, return the
\* channel to the caller, which starts to receive from it.
PagesStream ==
    /\ ~stream.made
    /\ stream' = [made |-> TRUE, closed |-> FALSE]
    /\ producer' = [pc |-> "loop", i |-> 1]
    /\ consumer' = [pc |-> "range", received |-> <<>>]
    /\ UNCHANGED <<p, call, out>>

LoopCondition_strict(i, pg) == i < NumberOfPages(pg)

LoopCondition(i, pg) == i <= NumberOfPages(pg)

\* The goroutine evaluates the loop condition.
LoopTest ==
    /\ producer.pc = "loop"
    /\ producer' = [producer EXCEPT
                      !.pc = IF LoopCondition(producer.i, p) THEN "send"
                             ELSE "close"]
    /\ UNCHANGED <<p, call, out, consumer, stream>>

\* stream <- i on the unbuffered channel: completes only together with a
\* receive of the caller.
Send ==
    /\ producer.pc = "send"
    /\ consumer.pc = "range"
    /\ consumer' = [consumer EXCEPT !.received = Append(@, producer.i)]
    /\ producer' = [pc |-> "loop", i |-> producer.i + 1]
    /\ UNCHANGED <<p, call, out, stream>>

\* close(stream); the goroutine returns.
Close ==
    /\ producer.pc = "close"
    /\ stream' = [stream EXCEPT !.closed = TRUE]
    /\ producer' = [producer EXCEPT !.pc = "done"]
    /\ UNCHANGED <<p, call, out, consumer>>

\* The caller's receive finds the channel closed: its range loop ends.
RecvClosed ==
    /\ consumer.pc = "range"
    /\ stream.closed
    /\ consumer' = [consumer EXCEPT !.pc = "ended"]
    /\ UNCHANGED <<p, call, out, producer, stream>>

\* The caller stops receiving and never receives again.
Break ==
    /\ consumer.pc = "range"
    /\ consumer' = [consumer EXCEPT !.pc = "stopped"]
    /\ UNCHANGED <<p, call, out, producer, stream>>

Next ==
    \/ CallToPagination
    \/ CallToPaginationWithData
    \/ PagesStream
    \/ LoopTest
    \/ Send
    \/ Close
    \/ RecvClosed
    \/ Break

Spec == Init /\ [][Next]_vars

\* The Go scheduler runs every goroutine that can take a step; a caller that
\* is still receiving takes the value offered or sees the close.
FairSpec ==
    /\ Spec
    /\ WF_vars(LoopTest)
    /\ WF_vars(Send)
    /\ WF_vars(Close)
    /\ WF_vars(RecvClosed)

TypeOK ==
    /\ p.numberOfItems \in ItemCounts
    /\ p.itemsPerPage \in PageSizes
    /\ p.currentPage \in MinInt..MaxInt
    /\ producer.pc \in {"idle", "loop", "send", "close", "done"}
    /\ consumer.pc \in {"idle", "range", "stopped", "ended"}

(***************************************************************************)
(* Properties.                                                             *)
(***************************************************************************)
Max(a, b) == IF a >= b THEN a ELSE b

Min(a, b) == IF a <= b THEN a ELSE b

\* k is the ceiling of n / per: the least integer with k * per >= n.
IsCeiling(k, n, per) == k * per >= n /\ (k - 1) * per < n

ParseFailed == Atoi(QueryGet(call.req)).err # "nil"

\* C1: for n >= 0, perPage > 0 and any requested page, the Paginator New
\* returns has CurrentPage() in [1, max(1, ceil(n / perPage))].
C1_CurrentPageInRange ==
    call.op = "New" =>
        /\ CurrentPage(p) >= 1
        /\ CurrentPage(p) <= Max(1, NumberOfPages(p))

\* C2 as stated: NumberOfPages() is ceil(n / perPage) and is at least 1, also
\* when n = 0.
C2_AtLeastOnePage ==
    /\ IsCeiling(NumberOfPages(p), NumberOfItems(p), ItemsPerPage(p))
    /\ NumberOfPages(p) >= 1

\* C2 amended: NumberOfPages() is ceil(n / perPage); it is at least 1 when
\* n >= 1 and it is 0 when n = 0.
C2_NumberOfPagesIsCeiling ==
    /\ IsCeiling(NumberOfPages(p), NumberOfItems(p), ItemsPerPage(p))
    /\ NumberOfItems(p) >= 1 => NumberOfPages(p) >= 1
    /\ NumberOfItems(p) = 0 => NumberOfPages(p) = 0
    /\ out.op = "ToPagination" =>
          IsCeiling(out.returned[1].TotalPages, NumberOfItems(p), ItemsPerPage(p))

C2_Witness ==
    /\ NumberOfItems(p) = 7
    /\ ItemsPerPage(p) = 3
    /\ out.op = "ToPagination"
    /\ out.returned[1].TotalPages = 3

\* C3: New(n, perPage, 0).CurrentPage() = 1 for every n >= 0, perPage > 0.
C3_ZeroIsPageOne ==
    (call.op = "New" /\ call.currentPage = 0) => CurrentPage(p) = 1

\* C4: for a requested page r >= 1, CurrentPage() = min(r, NumberOfPages()):
\* r unchanged when r <= NumberOfPages(), the last page when r is beyond it.
C4_ClampToLastPage ==
    call.currentPage >= 1 =>
        /\ CurrentPage(p) = Min(call.currentPage, NumberOfPages(p))
        /\ call.currentPage <= NumberOfPages(p) => CurrentPage(p) = call.currentPage
        /\ call.currentPage > NumberOfPages(p) => CurrentPage(p) = NumberOfPages(p)

C4_Witness ==
    /\ call.op = "New"
    /\ call.currentPage = 5
    /\ NumberOfPages(p) = 3
    /\ CurrentPage(p) = 3

\* C5: when the caller stops receiving after k < NumberOfPages() values, the
\* producer goroutine still eventually terminates.
C5_ProducerTerminates ==
    (consumer.pc = "stopped" /\ Len(consumer.received) < NumberOfPages(p))
        ~> (producer.pc = "done")

\* C6: a caller that receives until the channel is closed gets exactly
\* 1, 2, ..., NumberOfPages() in ascending order (the sequence Pages()), the
\* producer has then made exactly NumberOfPages() sends, closed the channel
\* and terminated; and the caller's loop does end unless the caller breaks it.
C6_StreamYieldsPages ==
    /\ [](consumer.pc = "ended" =>
            /\ consumer.received = Pages(p)
            /\ producer = [pc |-> "done", i |-> NumberOfPages(p) + 1]
            /\ stream.closed)
    /\ [](stream.made =>
            /\ Len(consumer.received) <= NumberOfPages(p)
            /\ consumer.received = SubSeq(Pages(p), 1, Len(consumer.received)))
    /\ (consumer.pc = "range") ~> (consumer.pc \in {"ended", "stopped"})

C6_Witness ==
    /\ consumer.pc = "ended"
    /\ consumer.received = <<1, 2, 3, 4>>

\* C7: ToPaginationWithData with an argument that is not a slice (a scalar, a
\* map, ...) fails: the call panics, returns no Pagination, and the failure
\* reaches the caller.
C7_NonSlicePanics ==
    (out.op = "ToPaginationWithData" /\ out.kind # "Slice") =>
        /\ out.panicked
        /\ out.returned = <<>>

C7_Witness ==
    /\ out.op = "ToPaginationWithData"
    /\ out.kind = "Map"
    /\ out.panicked

\* C8: when the page parameter is absent or fails to parse (empty, not a
\* number, outside the int range), NewFromRequest treats the page as 0: the
\* Paginator it returns is New(n, perPage, 0).
C8_ParseFailureIsPageZero ==
    (call.op = "NewFromRequest" /\ ParseFailed) =>
        p = New(call.numberOfItems, call.itemsPerPage, 0)

\* C9: PreviousPage() is CurrentPage() - 1 floored at 1, never below 1;
\* NextPage() is CurrentPage() + 1 capped at NumberOfPages(), never above it.
C9_NeighbourPages ==
    LET prev == PreviousPage(p)
        next == NextPage(p)
    IN  /\ prev >= 1
        /\ prev + 1 >= CurrentPage(p)
        /\ prev = 1 \/ prev + 1 = CurrentPage(p)
        /\ next <= NumberOfPages(p)
        /\ next - 1 <= CurrentPage(p)
        /\ next = NumberOfPages(p) \/ next - 1 = CurrentPage(p)
        /\ out.returned # <<>> =>
              /\ out.returned[1].PreviousPage = prev
              /\ out.returned[1].NextPage = next

C9_Witness ==
    /\ NumberOfPages(p) = 4
    /\ CurrentPage(p) = 4
    /\ out.op = "ToPagination"
    /\ out.returned[1].NextPage = 4
    /\ out.returned[1].PreviousPage = 3

\* C10: for a requested page >= 0, Offset() = (CurrentPage() - 1) *
\* ItemsPerPage(), Offset() >= 0, and Offset() < n whenever n >= 1.
C10_OffsetIsValidIndex ==
    call.currentPage >= 0 =>
        /\ Offset(p) = (CurrentPage(p) - 1) * ItemsPerPage(p)
        /\ Offset(p) >= 0
        /\ NumberOfItems(p) >= 1 => Offset(p) < NumberOfItems(p)

====
